---- MODULE Spec2Model ----
(***************************************************************************)
(* Model of the content recommender backend: the per-minute rate limiters  *)
(* (database.py, langchain_integration.py), embedding generation           *)
(* (database.py), and the /search pipeline (main.py over database.py).     *)
(*                                                                         *)
(* Time is in seconds.  Similarity scores and distances are integers in    *)
(* units of 10^-5, so that the 4-decimal rounding of a score is visible.   *)
(* Embedding components are integers in units of 0.1.                      *)
(***************************************************************************)
EXTENDS Integers, Sequences, FiniteSets, TLC

VARIABLES
    now,          \* time.time(), seconds
    limit,        \* settings.embedding_rate_limit / settings.llm_rate_limit, per API class
    lim,          \* per API class: [last |-> last_*_call, count |-> *_call_count]
    nth,          \* history: index, in the window it was issued in, of the last Acquire per class
    slept,        \* history: seconds the last Acquire per class spent in time.sleep
    acq,          \* history: class of the last Acquire ("" if none yet)
    ret,          \* history: time at which the last Acquire per class returned
    thr,          \* per thread: position and locals inside _rate_limit_embedding_calls
    admits,       \* history: one record per call that returned from the concurrent limiter
    sinceReset,   \* history: increments completed since embedding_call_count was last set to 0
    hasKey,       \* settings.google_api_key is set
    embIn,        \* history: the last generate_embedding call: its text, whether the provider
                  \* was called, and what the provider answers when called
    embOut,       \* history: what the last generate_embedding call returned (<<>> before any call)
    chain,        \* langchain_processor.query_expansion_chain is set
    store,        \* the ChromaDB collection: records in insertion order
    search_stats, \* ContentDatabase.search_stats
    sr,           \* the /search request served last: its position and locals, and history
                  \* (errors: the steps at which an exception was raised)
    response,     \* what the request served last answered, if it was a /search
    addOut,       \* what the last add_content call answered; n: the calls made so far;
                  \* fields: the body it was given; history: whether the provider
                  \* failed (embedFailed) and whether the write failed (writeFailed)
    expIn,        \* history: the last expand_query call: its query, and what the chain answers
    expOut,       \* history: the list the last expand_query call returned (<<>> before any call)
    statsOut,     \* what the last get_stats call returned (in SpecStats: if nothing was
                  \* recorded since); status "counting": the call has read the count
    getOut,       \* the last get_content_by_id call: the id asked for, what happened in the
                  \* store (cause), and the value returned (<<>> for None, else <<item>>)
    getSeen,      \* history: the value last returned for an id that is not stored (absent)
                  \* and for a fetch that raised (error)
    simOut,       \* the last get_similar_content call and the list it returned; n: calls so far
                  \* (getOut and simOut tell of the last call only: a call of another kind
                  \* clears them)
    twoRuns,      \* history: the lists two /search requests returned that met the same
                  \* store answers and differed in the order of the variants
    sugOut        \* what the /query-suggestions request answered; n: the requests so far

limiterVars == <<now, limit, lim, nth, slept, acq, ret>>
threadVars == <<thr, admits, sinceReset>>
embedVars == <<embIn, embOut>>
outVars == <<expIn, expOut, statsOut, getOut, getSeen, simOut, twoRuns, sugOut>>
searchVars == <<chain, store, search_stats, sr, response, addOut, outVars>>
vars == <<limiterVars, threadVars, hasKey, embedVars, searchVars>>

----------------------------------------------------------------------------
(* Bounds of the model *)

\* the clock stops advancing on its own at T0 + MaxTicks * TickStep
MaxTicks == 4
\* no Acquire is issued once a counter reached MaxCount
MaxCount == 4
\* the largest configured limit tried
MaxLimit == 2

(* Program constants *)

\* settings.embedding_rate_limit and settings.llm_rate_limit, the defaults
embedding_rate_limit == 1500
llm_rate_limit == 15

\* "if current_time - self.last_embedding_call > 60" / "sleep_time = 60 - (...)"
Window == 60

\* seconds by which the clock advances in one step
TickStep == 30
\* the clock when the process starts: time.time() is far more than 60 s after the epoch,
\* while last_embedding_call and last_llm_call start at 0
T0 == 90
MaxTime == T0 + MaxTicks * TickStep

Classes == {"embedding", "llm"}
Limits == ((0 - 1) .. MaxLimit) \cup {embedding_rate_limit, llm_rate_limit}

----------------------------------------------------------------------------
(* RateLimiter: _rate_limit_embedding_calls and _rate_limit_llm_calls have  *)
(* the same body over their own pair of counters.                          *)

\* lines 60-63: reset the counter if a minute has passed
WindowReset(st, t) ==
    IF t - st.last > Window THEN [last |-> t, count |-> 0] ELSE st

\* line 67: sleep_time = 60 - (current_time - self.last_embedding_call)
SleepTime(st, t) == Window - (t - st.last)

\* lines 66-68 with the limit hit one call early
MustSleepEarly(st, lmt, t) == st.count + 1 >= lmt /\ SleepTime(st, t) > 0

\* lines 66-68: the call sleeps iff the limit is hit and sleep_time > 0
MustSleep(st, lmt, t) == st.count >= lmt /\ SleepTime(st, t) > 0

\* _rate_limit_*_calls with line 74 in an else branch: no increment after a sleep
rate_limit_callsNoCountAfterSleep(st, lmt, t) ==
    LET r == WindowReset(st, t)
        d == SleepTime(r, t)
    IN  IF MustSleep(r, lmt, t)
        THEN [last |-> t + d, count |-> 0, slept |-> d]
        ELSE [last |-> r.last, count |-> r.count + 1, slept |-> 0]

\* The whole of _rate_limit_*_calls for a call entered at time t by the only caller:
\* the limiter state when it returns, and the seconds it slept.
\* time.sleep(d) returns at t + d; that instant becomes the new window start (line 72).
rate_limit_calls(st, lmt, t) ==
    LET r == WindowReset(st, t)
        d == SleepTime(r, t)
    IN  IF MustSleep(r, lmt, t)
        THEN [last |-> t + d, count |-> 0 + 1, slept |-> d]
        ELSE [last |-> r.last, count |-> r.count + 1, slept |-> 0]

\* Index of a call entered at time t within the window it is issued in: 1 if the
\* window has run out (more than 60 s), else one more than the calls of the window.
IssuedIndex(st, t) == IF t - st.last > Window THEN 1 ELSE st.count + 1

----------------------------------------------------------------------------
(* Sequential use of the limiters: one caller at a time *)

InitLimiter ==
    /\ now = T0
    /\ limit \in [Classes -> Limits]
    /\ lim = [c \in Classes |-> [last |-> 0, count |-> 0]]
    /\ nth = [c \in Classes |-> 0]
    /\ slept = [c \in Classes |-> 0]
    /\ acq = ""
    /\ ret = [c \in Classes |-> 0]

InitThreads ==
    /\ thr = <<>>
    /\ admits = <<>>
    /\ sinceReset = 0

\* some time passes between two calls
Tick ==
    /\ now < MaxTime
    /\ now' = now + TickStep
    /\ UNCHANGED <<limit, lim, nth, slept, acq, ret, threadVars, hasKey, embedVars, searchVars>>

\* one call of _rate_limit_embedding_calls (c = "embedding") or _rate_limit_llm_calls
Acquire(c) ==
    LET r == rate_limit_calls(lim[c], limit[c], now) IN
    /\ lim[c].count < MaxCount
    /\ now <= MaxTime
    /\ lim' = [lim EXCEPT ![c] = [last |-> r.last, count |-> r.count]]
    /\ now' = now + r.slept
    /\ nth' = [nth EXCEPT ![c] = IssuedIndex(lim[c], now)]
    /\ slept' = [slept EXCEPT ![c] = r.slept]
    /\ acq' = c
    /\ ret' = [ret EXCEPT ![c] = now + r.slept]
    /\ UNCHANGED <<limit, threadVars, hasKey, embedVars, searchVars>>

InitEmbedIdle ==
    /\ embIn = [text |-> "", called |-> FALSE, ok |-> FALSE, embedding |-> <<>>]
    /\ embOut = <<>>

\* no request in progress
IdleSearch ==
    [pc |-> "idle", n |-> 0, query |-> "", max_results |-> 0,
     category_filter |-> "", difficulty_filter |-> "", min_similarity |-> 0,
     expanded_queries |-> <<>>, k |-> 0, all_results |-> <<>>, seen_ids |-> {},
     statsBefore |-> 0, firstSeen |-> <<>>, dupHigher |-> {}, errors |-> {}]

NoResponse == [status |-> "none", results |-> <<>>, total_results |-> 0]

\* no get_content_by_id call since the last call of another kind
NoLookup == [content_id |-> 0, cause |-> "none", value |-> <<>>]
\* no get_similar_content call since the last call of another kind, n made in all
NoSimilar(n) ==
    [status |-> "none", content_id |-> 0, max_results |-> 0, results |-> <<>>, n |-> n]

\* no pair of requests compared since the last add_content
NoRuns == [status |-> "none", max_results |-> 0, results |-> <<>>, first |-> <<>>, second |-> <<>>]

\* no /query-suggestions request yet
NoSuggestions == [status |-> "none", query |-> "", suggestions |-> <<>>, n |-> 0]

\* no call made yet
InitOutputs ==
    /\ expIn = [query |-> <<>>, ok |-> FALSE, text |-> <<>>]
    /\ expOut = <<>>
    /\ statsOut = [status |-> "none"]
    /\ getOut = NoLookup
    /\ getSeen = [absent |-> [seen |-> FALSE, value |-> <<>>],
                  error |-> [seen |-> FALSE, value |-> <<>>]]
    /\ simOut = NoSimilar(0)
    /\ twoRuns = NoRuns
    /\ sugOut = NoSuggestions

InitStoreEmpty ==
    /\ InitOutputs
    /\ store = <<>>
    /\ search_stats = <<>>
    /\ sr = IdleSearch
    /\ response = NoResponse
    /\ addOut = [status |-> "none", id |-> 0, n |-> 0, fields |-> <<>>,
                 embedFailed |-> FALSE, writeFailed |-> FALSE]

InitSearchIdle == chain = TRUE /\ InitStoreEmpty

InitRL == InitLimiter /\ InitThreads /\ hasKey = TRUE /\ InitEmbedIdle /\ InitSearchIdle

NextRL == Tick \/ \E c \in Classes : Acquire(c)

SpecRL == InitRL /\ [][NextRL]_vars

----------------------------------------------------------------------------
(* Concurrent callers of _rate_limit_embedding_calls.  The method takes no  *)
(* lock; each statement is one step of the calling thread, and the          *)
(* "+= 1" of line 74 is a read followed by a write.                         *)

\* number of calling threads
NThreads == 2
\* calls each thread makes
MaxCalls == 2

Threads == 1 .. NThreads
EC == "embedding"

IdleThread == [pc |-> "idle", current_time |-> 0, wake |-> 0, tmp |-> 0,
               sleptIn |-> 0, didSleep |-> FALSE, calls |-> 0]

SetCount(n) == lim' = [lim EXCEPT ![EC].count = n]
SetLast(t) == lim' = [lim EXCEPT ![EC].last = t]
Goto(i, p) == thr' = [thr EXCEPT ![i].pc = p]
limiterFrame == UNCHANGED <<limit, nth, slept, acq, ret, hasKey, embedVars, searchVars>>

\* line 58: current_time = time.time()
T_Enter(i) ==
    /\ thr[i].pc = "idle" /\ thr[i].calls < MaxCalls
    /\ thr' = [thr EXCEPT ![i].pc = "l61", ![i].current_time = now,
                          ![i].didSleep = FALSE, ![i].calls = @ + 1]
    /\ UNCHANGED <<now, lim, admits, sinceReset>> /\ limiterFrame

\* line 61: if current_time - self.last_embedding_call > 60
T_CheckWindow(i) ==
    /\ thr[i].pc = "l61"
    /\ Goto(i, IF thr[i].current_time - lim[EC].last > Window THEN "l62" ELSE "l66")
    /\ UNCHANGED <<now, lim, admits, sinceReset>> /\ limiterFrame

\* line 62: self.embedding_call_count = 0
T_ResetCount(i) ==
    /\ thr[i].pc = "l62"
    /\ SetCount(0) /\ sinceReset' = 0
    /\ Goto(i, "l63")
    /\ UNCHANGED <<now, admits>> /\ limiterFrame

\* line 63: self.last_embedding_call = current_time
T_ResetStart(i) ==
    /\ thr[i].pc = "l63"
    /\ SetLast(thr[i].current_time)
    /\ Goto(i, "l66")
    /\ UNCHANGED <<now, admits, sinceReset>> /\ limiterFrame

\* lines 66-70: the limit check; time.sleep(sleep_time) starts now
T_CheckLimit(i) ==
    /\ thr[i].pc = "l66"
    /\ IF MustSleep(lim[EC], limit[EC], thr[i].current_time)
       THEN thr' = [thr EXCEPT ![i].pc = "l70",
                               ![i].wake = now + SleepTime(lim[EC], thr[i].current_time),
                               ![i].sleptIn = lim[EC].last,
                               ![i].didSleep = TRUE]
       ELSE Goto(i, "l74")
    /\ UNCHANGED <<now, lim, admits, sinceReset>> /\ limiterFrame

\* line 70: time.sleep returns once sleep_time has passed
T_Wake(i) ==
    /\ thr[i].pc = "l70" /\ now >= thr[i].wake
    /\ Goto(i, "l71")
    /\ UNCHANGED <<now, lim, admits, sinceReset>> /\ limiterFrame

\* line 71: self.embedding_call_count = 0
T_WakeResetCount(i) ==
    /\ thr[i].pc = "l71"
    /\ SetCount(0) /\ sinceReset' = 0
    /\ Goto(i, "l72")
    /\ UNCHANGED <<now, admits>> /\ limiterFrame

\* line 72: self.last_embedding_call = time.time()
T_WakeResetStart(i) ==
    /\ thr[i].pc = "l72"
    /\ SetLast(now)
    /\ Goto(i, "l74")
    /\ UNCHANGED <<now, admits, sinceReset>> /\ limiterFrame

\* line 74, the read of self.embedding_call_count
T_Load(i) ==
    /\ thr[i].pc = "l74"
    /\ thr' = [thr EXCEPT ![i].pc = "l74w", ![i].tmp = lim[EC].count]
    /\ UNCHANGED <<now, lim, admits, sinceReset>> /\ limiterFrame

\* line 74, the write of self.embedding_call_count; the call returns
T_Store(i) ==
    /\ thr[i].pc = "l74w"
    /\ SetCount(thr[i].tmp + 1)
    /\ sinceReset' = sinceReset + 1
    /\ admits' = Append(admits, [thread |-> i, at |-> now,
                                 slept |-> thr[i].didSleep, sleptIn |-> thr[i].sleptIn])
    /\ Goto(i, "idle")
    /\ UNCHANGED now /\ limiterFrame

\* the clock advances while threads run or sleep
TickConc ==
    /\ now < MaxTime
    /\ now' = now + TickStep
    /\ UNCHANGED <<limit, lim, nth, slept, acq, ret, threadVars, hasKey, embedVars, searchVars>>

InitConc ==
    /\ now = T0
    /\ \E l \in 1 .. MaxLimit : limit = [c \in Classes |-> l]
    /\ lim = [c \in Classes |-> [last |-> 0, count |-> 0]]
    /\ nth = [c \in Classes |-> 0]
    /\ slept = [c \in Classes |-> 0]
    /\ acq = ""
    /\ ret = [c \in Classes |-> 0]
    /\ thr = [i \in Threads |-> IdleThread]
    /\ admits = <<>>
    /\ sinceReset = 0
    /\ hasKey = TRUE
    /\ InitEmbedIdle
    /\ InitSearchIdle

NextConc ==
    \/ TickConc
    \/ \E i \in Threads :
        \/ T_Enter(i)
        \/ T_CheckWindow(i)
        \/ T_ResetCount(i)
        \/ T_ResetStart(i)
        \/ T_CheckLimit(i)
        \/ T_Wake(i)
        \/ T_WakeResetCount(i)
        \/ T_WakeResetStart(i)
        \/ T_Load(i)
        \/ T_Store(i)

SpecConc == InitConc /\ [][NextConc]_vars

----------------------------------------------------------------------------
(* EmbeddingProvider: ContentDatabase.generate_embedding *)

\* settings.embedding_dimension, scaled down
embedding_dimension == 2
\* the component of the dummy embedding, [0.1] * dimension, in tenths
PlaceholderComponent == 1

\* components a provider vector is built from, in tenths
Comps == {0, 3}
\* texts handed to generate_embedding, the empty text among them
Texts == {"", "intro to go"}

Vectors(n) == [1 .. n -> Comps]
\* what genai.embed_content answers: a failure (timeout, error, malformed
\* response), or a vector of any length up to one more than the dimension
ProviderResponses ==
    {[ok |-> FALSE, embedding |-> <<>>]} \cup
    {[ok |-> TRUE, embedding |-> e] :
        e \in UNION {Vectors(n) : n \in 0 .. embedding_dimension + 1}}

\* lines 81 and 109: [0.1] * settings.embedding_dimension
Placeholder == [i \in 1 .. embedding_dimension |-> PlaceholderComponent]

\* lines 100 and 102 without the cut: the vector is only ever padded
FitDimensionPadOnly(e) ==
    e \o [i \in 1 .. embedding_dimension - Len(e) |-> 0]

\* lines 96-102: pad with 0.0 or truncate to the configured dimension
FitDimension(e) ==
    IF Len(e) # embedding_dimension
    THEN IF Len(e) < embedding_dimension
         THEN e \o [i \in 1 .. embedding_dimension - Len(e) |-> 0]
         ELSE SubSeq(e, 1, embedding_dimension)
    ELSE e

\* lines 78-109 without the handler of lines 106-109: a failed call leaves an
\* empty vector to be fitted
generate_embeddingNoFallback(key, resp) ==
    IF ~key THEN Placeholder
    ELSE FitDimension(resp.embedding)

\* lines 78-109: the vector generate_embedding returns, given whether a key is
\* configured and what the provider answers
generate_embedding(key, resp) ==
    IF ~key THEN Placeholder
    ELSE IF ~resp.ok THEN Placeholder
    ELSE FitDimension(resp.embedding)

\* line 84: the limiter is acquired only when a key is configured; the effect of
\* generate_embedding on the embedding limiter and the clock
EmbedLimiter(key) ==
    IF key
    THEN LET r == rate_limit_calls(lim["embedding"], limit["embedding"], now) IN
         /\ lim' = [lim EXCEPT !["embedding"] = [last |-> r.last, count |-> r.count]]
         /\ now' = now + r.slept
         /\ nth' = [nth EXCEPT !["embedding"] = IssuedIndex(lim["embedding"], now)]
         /\ slept' = [slept EXCEPT !["embedding"] = r.slept]
         /\ acq' = "embedding"
         /\ ret' = [ret EXCEPT !["embedding"] = now + r.slept]
    ELSE UNCHANGED <<lim, now, nth, slept, acq, ret>>

\* one call of generate_embedding(text)
Embed(text, resp) ==
    /\ lim["embedding"].count < MaxCount
    /\ now <= MaxTime
    /\ EmbedLimiter(hasKey)
    \* genai.embed_content (line 87) is reached only past the return of line 81
    /\ embIn' = [text |-> text, called |-> hasKey, ok |-> resp.ok, embedding |-> resp.embedding]
    /\ embOut' = generate_embedding(hasKey, resp)
    /\ UNCHANGED <<limit, threadVars, hasKey, searchVars>>

TickEmbed ==
    /\ now < MaxTime
    /\ now' = now + TickStep
    /\ UNCHANGED <<limit, lim, nth, slept, acq, ret, threadVars, hasKey, embedVars, searchVars>>

InitEmbed ==
    /\ InitLimiter /\ InitThreads /\ InitEmbedIdle
    /\ limit["llm"] = llm_rate_limit
    /\ hasKey \in BOOLEAN
    /\ chain = hasKey
    /\ InitStoreEmpty

NextEmbed ==
    \/ TickEmbed
    \/ \E text \in Texts, resp \in ProviderResponses : Embed(text, resp)

SpecEmbed == InitEmbed /\ [][NextEmbed]_vars

----------------------------------------------------------------------------
(* VectorStore: the ChromaDB collection behind ContentDatabase *)

\* add_content calls made, so the records the collection may hold
MaxItems == 2
\* the largest max_results requested
MaxN == 2
\* the max_results of the add-then-search scenario (5 in spec section 8), scaled
\* down with MaxItems so that the store can hold more items than one search returns
ScenarioMaxResults == 1

\* units of a score or a distance per 1.0: one decimal more than round(score, 4) keeps
Scale == 100000

\* cosine distances the collection reports, in units of 1/Scale (range [0, 2])
Dists == {0, 29996, 120000}
\* the filters of a request: min_similarity in units of 1/Scale (range [0, 1]);
\* "" stands for an absent (None or empty) filter: both are falsy at lines 175, 177
FilterSets ==
    {[category_filter |-> "", difficulty_filter |-> "", min_similarity |-> 0],
     [category_filter |-> "Health", difficulty_filter |-> "", min_similarity |-> 70003],
     [category_filter |-> "Health", difficulty_filter |-> "Advanced", min_similarity |-> 0]}

\* the query of a /search request, and what the language model may add to it
Queries == {"q0"}
CandidateLists == {<<>>, <<"q0", "q1">>}
\* what query_expansion_chain.run answers: an error, or the parsed candidates
LLMResponses ==
    {[ok |-> FALSE, queries |-> <<>>]} \cup
    {[ok |-> TRUE, queries |-> c] : c \in CandidateLists}

\* A tag is a sequence of characters, as the strings of the language model are.
TagGo == <<"g", "o">>
TagSystems == <<"s", "y", "s">>
\* a tag that holds a comma: "a,b"
TagComma == <<"a", ",", "b">>
\* the tag lists of a request: none, one, two, and one whose tag holds a comma
TagLists == {<<>>, <<TagGo>>, <<TagGo, TagSystems>>, <<TagComma>>}

RECURSIVE JoinTags(_)
\* line 255: ','.join(content_data['tags'])
JoinTags(tags) ==
    IF tags = <<>> THEN <<>>
    ELSE IF Len(tags) = 1 THEN tags[1]
    ELSE tags[1] \o <<",">> \o JoinTags(Tail(tags))

RECURSIVE SplitTags(_)
\* line 233: metadata['tags'].split(','); the empty string splits to ['']
SplitTags(str) ==
    IF \E k \in DOMAIN str : str[k] = ","
    THEN LET k == CHOOSE i \in DOMAIN str :
                      str[i] = "," /\ \A j \in 1 .. i - 1 : str[j] # ","
         IN  <<SubSeq(str, 1, k - 1)>> \o SplitTags(SubSeq(str, k + 1, Len(str)))
    ELSE <<str>>

\* AddContentRequest bodies; long: the content has more than 100 words
Payloads ==
    {[title |-> "Sleep well", category |-> "Health", difficulty |-> "Beginner",
      long |-> FALSE, tags |-> <<TagGo>>],
     [title |-> "Intro to Go", category |-> "Technology", difficulty |-> "Beginner",
      long |-> TRUE, tags |-> <<TagGo, TagSystems>>]}
\* and the bodies tried for the round trip of an item: every tag list
RepoPayloads ==
    {[title |-> "Intro to Go", category |-> "Technology", difficulty |-> "Beginner",
      long |-> FALSE, tags |-> t] : t \in TagLists}

\* provider answers tried when a request embeds a text
EmbedResponses ==
    {[ok |-> FALSE, embedding |-> <<>>],
     [ok |-> TRUE, embedding |-> [i \in 1 .. embedding_dimension |-> 3]]}

Range(f) == {f[i] : i \in DOMAIN f}
Min(a, b) == IF a < b THEN a ELSE b
Take(seq, n) == SubSeq(seq, 1, Min(n, Len(seq)))
\* the orders in which the elements of S can be listed
Perms(S) == {f \in [1 .. Cardinality(S) -> S] : \A i, j \in DOMAIN f : f[i] = f[j] => i = j}

\* lines 174-178 without lines 175-176: the category never enters the where clause
MatchesDifficultyOnly(rec, cf, df) ==
    df # "" => rec.difficulty = df

\* lines 174-178: the where clause; a record passes if it equals every filter set
Matches(rec, cf, df) ==
    /\ cf # "" => rec.category = cf
    /\ df # "" => rec.difficulty = df

\* collection.query (lines 181-185): the records that pass the filter, nearest
\* first, at most k of them, each with its cosine distance to the query vector.
\* The index is external: it may report any distance, 0 for an identical vector,
\* and list equal distances in any order.
QueryAnswers(qe, k, cf, df) ==
    LET hits == {i \in 1 .. Len(store) : Matches(store[i], cf, df)}
        dists == {d \in [hits -> Dists] : \A i \in hits : store[i].embedding = qe => d[i] = 0}
    IN  UNION {
          {Take([j \in 1 .. Cardinality(hits) |-> [i |-> ord[j], distance |-> d[ord[j]]]], k) :
              ord \in {o \in Perms(hits) :
                         \A a, b \in DOMAIN o : a < b => d[o[a]] <= d[o[b]]}} :
          d \in dists}

----------------------------------------------------------------------------
(* ContentDatabase.search_content: one variant's search *)

\* round(similarity_score, 4): to the nearest multiple of 10 units, ties to even
Round4(x) ==
    LET q == x \div 10
        r == x % 10
    IN  IF r < 5 THEN q * 10
        ELSE IF r > 5 THEN (q + 1) * 10
        ELSE IF q % 2 = 0 THEN q * 10 ELSE (q + 1) * 10

\* line 191: similarity_score = 1 - distance
Similarity(distance) == Scale - distance

\* line 193: if similarity_score >= min_similarity
PassesThreshold(score, ms) == score >= ms

\* lines 194-205: the result built from one hit
ResultOf(h) ==
    [id |-> store[h.i].id,
     category |-> store[h.i].category,
     difficulty |-> store[h.i].difficulty,
     long |-> store[h.i].long,
     similarity_score |-> Round4(Similarity(h.distance))]

\* lines 188-205: content_results, from the answer of the collection
ContentResults(ans, ms) ==
    LET Keep(h) == PassesThreshold(Similarity(h.distance), ms)
        kept == SelectSeq(ans, Keep)
    IN  [j \in 1 .. Len(kept) |-> ResultOf(kept[j])]

\* lines 209-214: the record appended to search_stats
StatRecord(query, results, elapsed) ==
    [query |-> query, results_count |-> Len(results), search_time |-> elapsed]

\* line 208: the time the search took, in units of 10^-5 s; the requests that are
\* followed step by step measure 0.12346 s
SearchTimes == {12346}

----------------------------------------------------------------------------
(* LangChainProcessor.expand_query and the /search handler of main.py *)

\* A string of the language model's output is a sequence of characters; the text
\* the chain hands to the parser is the sequence of its lines, text.split('\n').

\* cleaned_queries[:5] (line 29), scaled down
MaxCandidates == 2
\* len(query) > 5 (line 27)
MinQueryLen == 5
\* lines of one output
MaxLines == 3

\* str.strip(): white space
Whitespace == {" "}
\* query.strip('- \u2022*') (line 24): the characters removed from both ends; the
\* bullet U+2022 is written "bullet"
MarkerChars == {"-", " ", "bullet", "*"}
\* line 25: the numberings recognised, '1.' to '5.'
NumberDigits == {"1", "2", "3", "4", "5"}

RECURSIVE LStrip(_, _)
LStrip(str, C) == IF str = <<>> \/ str[1] \notin C THEN str ELSE LStrip(Tail(str), C)
RECURSIVE RStrip(_, _)
RStrip(str, C) ==
    IF str = <<>> \/ str[Len(str)] \notin C THEN str ELSE RStrip(SubSeq(str, 1, Len(str) - 1), C)
Strip(str, C) == RStrip(LStrip(str, C), C)

\* lines 24-26: bullets are stripped, then a leading 'N.' with what follows trimmed
CleanLine(q) ==
    LET query == Strip(q, MarkerChars)
    IN  IF Len(query) >= 2 /\ query[1] \in NumberDigits /\ query[2] = "."
        THEN Strip(SubSeq(query, 3, Len(query)), Whitespace)
        ELSE query

\* line 27 without the length test: every non-empty cleaned line is kept
parseKeepShort(text) ==
    LET NonBlank(l) == Strip(l, Whitespace) # <<>>
        queries == SelectSeq(text, NonBlank)
        cleaned == [i \in 1 .. Len(queries) |-> CleanLine(Strip(queries[i], Whitespace))]
        Keep(q) == q # <<>>
    IN  SubSeq(SelectSeq(cleaned, Keep), 1,
               IF Len(SelectSeq(cleaned, Keep)) < MaxCandidates
               THEN Len(SelectSeq(cleaned, Keep)) ELSE MaxCandidates)

\* QueryExpansionParser.parse (lines 16-32): trimmed non-blank lines, cleaned,
\* those longer than 5 characters, the first 5 of them
parse(text) ==
    LET NonBlank(l) == Strip(l, Whitespace) # <<>>
        queries == SelectSeq(text, NonBlank)
        cleaned == [i \in 1 .. Len(queries) |-> CleanLine(Strip(queries[i], Whitespace))]
        Keep(q) == q # <<>> /\ Len(q) > MinQueryLen
    IN  SubSeq(SelectSeq(cleaned, Keep), 1,
               IF Len(SelectSeq(cleaned, Keep)) < MaxCandidates
               THEN Len(SelectSeq(cleaned, Keep)) ELSE MaxCandidates)

\* the query of an expansion: "golang"
QueryChars == <<"g", "o", "l", "a", "n", "g">>
\* lines the language model may write: blank, bullets only, too short once cleaned
JunkLines ==
    {<<" ", " ">>,
     <<"-", " ", "*">>,
     <<"3", ".", " ", "s", "h", "o", "r", "t">>}
\* and lines that hold a candidate: the query itself, "go intro" twice under
\* different markers, "systems", and "6. tool" whose numbering is not recognised
GoodLines ==
    {<<"-", " ", "g", "o", "l", "a", "n", "g">>,
     <<"1", ".", " ", "g", "o", " ", "i", "n", "t", "r", "o">>,
     <<"*", " ", "g", "o", " ", "i", "n", "t", "r", "o", "*">>,
     <<" ", "bullet", " ", "s", "y", "s", "t", "e", "m", "s", " ">>,
     <<"6", ".", " ", "t", "o", "o", "l">>}
OutputLines == JunkLines \cup GoodLines
\* the outputs of the language model, the empty one among them
OutputTexts == UNION {[1 .. n -> OutputLines] : n \in 0 .. MaxLines}

\* lines 145-146 without the set: the original followed by the candidates as parsed
expand_queryKeepDuplicates(query, llm) ==
    IF ~chain THEN {<<query>>}
    ELSE IF ~llm.ok THEN {<<query>>}
    ELSE {<<query>> \o llm.queries}

\* expand_query (lines 134-150): the lists it may return.  Without a chain, or when
\* the chain raises, [query]; else list(set([query] + expanded)): the distinct
\* strings in the order the set yields them, which is any order.
expand_query(query, llm) ==
    IF ~chain THEN {<<query>>}
    ELSE IF ~llm.ok THEN {<<query>>}
    ELSE Perms({query} \cup Range(llm.queries))

\* lines 76-79 with a duplicate replacing the result kept for its id
MergeOneLastWins(acc, r) ==
    IF r.id \notin acc.seen_ids
    THEN [all_results |-> Append(acc.all_results, r), seen_ids |-> acc.seen_ids \cup {r.id}]
    ELSE [all_results |-> [j \in DOMAIN acc.all_results |->
                              IF acc.all_results[j].id = r.id THEN r ELSE acc.all_results[j]],
          seen_ids |-> acc.seen_ids]

\* lines 77-79 without the test of line 77: every result is appended
MergeOneNoDedup(acc, r) ==
    [all_results |-> Append(acc.all_results, r), seen_ids |-> acc.seen_ids \cup {r.id}]

\* lines 77-79: a result is appended only if its id was not seen before
MergeOne(acc, r) ==
    IF r.id \notin acc.seen_ids
    THEN [all_results |-> Append(acc.all_results, r), seen_ids |-> acc.seen_ids \cup {r.id}]
    ELSE acc

RECURSIVE MergeFirst(_, _, _)
\* lines 76-79: the first n results of one variant merged into acc, in order
MergeFirst(acc, results, n) ==
    IF n = 0 THEN acc ELSE MergeOne(MergeFirst(acc, results, n - 1), results[n])

Merge(acc, results) == MergeFirst(acc, results, Len(results))

\* r placed before the results of its own score: a sort that is not stable
InsertDescUnstable(sorted, r) ==
    LET pos == Cardinality({j \in DOMAIN sorted :
                              sorted[j].similarity_score > r.similarity_score})
    IN  SubSeq(sorted, 1, pos) \o <<r>> \o SubSeq(sorted, pos + 1, Len(sorted))

\* r placed behind every result whose score is at least its own
InsertDesc(sorted, r) ==
    LET pos == Cardinality({j \in DOMAIN sorted :
                              sorted[j].similarity_score >= r.similarity_score})
    IN  SubSeq(sorted, 1, pos) \o <<r>> \o SubSeq(sorted, pos + 1, Len(sorted))

RECURSIVE SortFirst(_, _)
SortFirst(seq, n) ==
    IF n = 0 THEN <<>> ELSE InsertDesc(SortFirst(seq, n - 1), seq[n])

\* line 82: all_results.sort(key=similarity_score, reverse=True), a stable sort
SortByScore(seq) == SortFirst(seq, Len(seq))

\* line 83 without the cut
TruncateNone(seq, n) == seq

\* line 83: all_results[:request.max_results], for max_results >= 0
Truncate(seq, n) == Take(seq, n)

\* enhance_search_results (langchain lines 190-210): the label from the score
RelevanceExplanation(score) ==
    IF score > 80000 THEN "Highly relevant - strong semantic match"
    ELSE IF score > 60000 THEN "Moderately relevant - good conceptual match"
    ELSE IF score > 40000 THEN "Somewhat relevant - partial match"
    ELSE "Limited relevance - weak match"

Enhance(r) ==
    [id |-> r.id, category |-> r.category, difficulty |-> r.difficulty, long |-> r.long,
     similarity_score |-> r.similarity_score,
     summarized |-> r.long,
     relevance_explanation |-> RelevanceExplanation(r.similarity_score)]

\* line 90: ContentResponse(**result) keeps the fields of the response model
ContentResponse(e) ==
    [id |-> e.id, category |-> e.category, difficulty |-> e.difficulty, long |-> e.long,
     similarity_score |-> e.similarity_score]

\* lines 82-90: the results of the response, from the merged results
FinalResults(all, n) ==
    LET final_results == Truncate(SortByScore(all), n)
    IN  [j \in 1 .. Len(final_results) |-> ContentResponse(Enhance(final_results[j]))]

\* summarize_content is called for the long results (more than 100 words), and
\* acquires the generative limiter when a chain is set (langchain lines 154-166)
SummaryCalls(all, n) ==
    IF chain
    THEN Cardinality({j \in DOMAIN Truncate(SortByScore(all), n) :
                        Truncate(SortByScore(all), n)[j].long})
    ELSE 0

RECURSIVE AcquireN(_, _, _)
\* n calls in a row of the limiter of class c, each entered when the one before returns
AcquireN(c, st, n) ==
    IF n = 0 THEN st
    ELSE LET p == AcquireN(c, st, n - 1)
             r == rate_limit_calls(p, limit[c], p.t)
         IN  [last |-> r.last, count |-> r.count, t |-> p.t + r.slept,
              slept |-> r.slept, nth |-> IssuedIndex(p, p.t)]

\* the effect on limiter c and on the clock of n calls made by one request
LimiterCalls(c, n) ==
    IF n = 0 THEN UNCHANGED <<lim, now, nth, slept, acq, ret>>
    ELSE LET r == AcquireN(c, [last |-> lim[c].last, count |-> lim[c].count, t |-> now,
                               slept |-> 0, nth |-> 0], n) IN
         /\ lim' = [lim EXCEPT ![c] = [last |-> r.last, count |-> r.count]]
         /\ now' = r.t
         /\ nth' = [nth EXCEPT ![c] = r.nth]
         /\ slept' = [slept EXCEPT ![c] = r.slept]
         /\ acq' = c
         /\ ret' = [ret EXCEPT ![c] = r.t]

----------------------------------------------------------------------------
(* The requests.  The handlers are coroutines that never await, so a request *)
(* runs to its end before the next one starts.  One /search request is        *)
(* followed from its start to its answer, from every store the add_content    *)
(* calls before it can build; its locals are fresh at line 63.                *)

restFrame == UNCHANGED <<limit, threadVars, hasKey, embedVars, chain, outVars>>

\* a write that puts the record in the place of the one written last
collection_addReplacing(st, rec) ==
    IF st = <<>> THEN <<rec>> ELSE SubSeq(st, 1, Len(st) - 1) \o <<rec>>

\* database.py lines 251-264: collection.add of one record under an id that no
\* stored record has; the records are kept in insertion order
collection_add(st, rec) == Append(st, rec)

\* add_content that answers a failed write with an id all the same
add_contentFabricated(st, writeOk) ==
    [status |-> "ok", id |-> Len(st) + 1]

\* add_content lines 266-271: the id of the written item is returned; an exception
\* of the write is raised again (main.py lines 132-135 answer it with HTTP 500)
add_content(st, writeOk) ==
    IF writeOk THEN [status |-> "ok", id |-> Len(st) + 1]
    ELSE [status |-> "error", id |-> 0]

\* add_content (database.py lines 244-271): embed, then one collection.add under a
\* fresh uuid4; a failing write is raised to the caller.  addOut also records
\* whether the provider failed and whether the write failed.
AddContent(payload, resp, writeOk) ==
    /\ sr.pc = "idle"
    /\ addOut.n < MaxItems
    /\ LimiterCalls("embedding", IF hasKey THEN 1 ELSE 0)
    /\ store' = IF writeOk
                THEN collection_add(store,
                       [id |-> Len(store) + 1,
                        title |-> payload.title,
                        tags |-> JoinTags(payload.tags),
                        category |-> payload.category,
                        difficulty |-> payload.difficulty,
                        long |-> payload.long,
                        embedding |-> generate_embedding(hasKey, resp)])
                ELSE store
    /\ addOut' = [status |-> add_content(store, writeOk).status,
                  id |-> add_content(store, writeOk).id,
                  n |-> addOut.n + 1,
                  fields |-> payload,
                  embedFailed |-> hasKey /\ ~resp.ok,
                  writeFailed |-> ~writeOk]
    /\ sr' = [IdleSearch EXCEPT !.n = sr.n]
    /\ response' = NoResponse
    /\ getOut' = NoLookup
    /\ simOut' = NoSimilar(simOut.n)
    /\ UNCHANGED <<search_stats, limit, threadVars, hasKey, embedVars, chain,
                   expIn, expOut, statsOut, getSeen>>
    /\ twoRuns' = NoRuns
    /\ UNCHANGED sugOut

\* main.py lines 55-64: the request arrives and the query is expanded
SearchStart(q, n, f, llm) ==
    /\ sr.pc = "idle"
    /\ sr.n = 0
    /\ LimiterCalls("llm", IF chain THEN 1 ELSE 0)
    /\ \E variants \in expand_query(q, llm) :
          sr' = [pc |-> "query", n |-> sr.n + 1, query |-> q, max_results |-> n,
                 category_filter |-> f.category_filter,
                 difficulty_filter |-> f.difficulty_filter,
                 min_similarity |-> f.min_similarity,
                 expanded_queries |-> variants, k |-> 1,
                 all_results |-> <<>>, seen_ids |-> {},
                 statsBefore |-> Len(search_stats),
                 firstSeen |-> <<>>, dupHigher |-> {},
                 errors |-> IF chain /\ ~llm.ok THEN {"expand"} ELSE {}]
    /\ response' = NoResponse
    /\ UNCHANGED <<store, search_stats, addOut>>
    /\ restFrame

\* history: the score each id had in the first variant's results that held it
FirstSeenAfter(fs, results) ==
    [id \in DOMAIN fs \cup {results[j].id : j \in DOMAIN results} |->
        IF id \in DOMAIN fs THEN fs[id]
        ELSE (CHOOSE r \in Range(results) : r.id = id).similarity_score]

\* history: the ids a result repeats from an earlier variant with a higher score
DupHigher(fs, results) ==
    {results[j].id : j \in {i \in DOMAIN results :
        results[i].id \in DOMAIN fs /\ results[i].similarity_score > fs[results[i].id]}}

\* what the merge of one variant's results leaves in the request
Merged(results, errs) ==
    LET acc == Merge([all_results |-> sr.all_results, seen_ids |-> sr.seen_ids], results)
    IN  [sr EXCEPT !.all_results = acc.all_results,
                   !.seen_ids = acc.seen_ids,
                   !.firstSeen = FirstSeenAfter(@, results),
                   !.dupHigher = @ \cup DupHigher(sr.firstSeen, results),
                   !.errors = @ \cup errs,
                   !.k = @ + 1]

\* main.py lines 66-79, one turn of the loop: db.search_content for the variant
\* (database.py lines 167-216) and the merge of what it returns
SearchVariant(resp) ==
    /\ sr.pc = "query"
    /\ sr.k <= Len(sr.expanded_queries)
    /\ LimiterCalls("embedding", IF hasKey THEN 1 ELSE 0)
    /\ LET embedErr == IF hasKey /\ ~resp.ok THEN {"embed"} ELSE {} IN
       \/ \E ans \in QueryAnswers(generate_embedding(hasKey, resp), sr.max_results,
                                  sr.category_filter, sr.difficulty_filter) :
             LET results == ContentResults(ans, sr.min_similarity) IN
             /\ \E elapsed \in SearchTimes :
                   search_stats' = Append(search_stats,
                       StatRecord(sr.expanded_queries[sr.k], results, elapsed))
             /\ sr' = Merged(results, embedErr)
       \* lines 218-220: any exception of the search is logged and [] is returned
       \/ /\ search_stats' = search_stats
          /\ sr' = Merged(<<>>, embedErr \cup {"query"})
    /\ UNCHANGED <<store, response, addOut>>
    /\ restFrame

\* main.py lines 81-101: sort, cut, enhance and answer; an exception there is
\* answered with HTTP 500
SearchFinish(ok) ==
    /\ sr.pc = "query"
    /\ sr.k > Len(sr.expanded_queries)
    /\ LimiterCalls("llm", SummaryCalls(sr.all_results, sr.max_results))
    /\ IF ok
       THEN /\ response' = [status |-> "ok",
                            results |-> FinalResults(sr.all_results, sr.max_results),
                            total_results |-> Len(FinalResults(sr.all_results, sr.max_results))]
            /\ sr' = [sr EXCEPT !.pc = "idle"]
       ELSE /\ response' = [status |-> "error", results |-> <<>>, total_results |-> 0]
            /\ sr' = [sr EXCEPT !.pc = "idle", !.errors = @ \cup {"finish"}]
    /\ UNCHANGED <<store, search_stats, addOut>>
    /\ restFrame

\* the process after construction, with or without credentials (the chains are
\* built iff a key is set, langchain lines 75-125), the default limits
Init ==
    /\ now = T0
    /\ limit = [c \in Classes |->
                  IF c = "embedding" THEN embedding_rate_limit ELSE llm_rate_limit]
    /\ lim = [c \in Classes |-> [last |-> 0, count |-> 0]]
    /\ nth = [c \in Classes |-> 0]
    /\ slept = [c \in Classes |-> 0]
    /\ acq = ""
    /\ ret = [c \in Classes |-> 0]
    /\ InitThreads
    /\ InitEmbedIdle
    /\ hasKey \in BOOLEAN
    /\ chain = hasKey
    /\ InitStoreEmpty

Next ==
    \/ \E payload \in Payloads, resp \in EmbedResponses, writeOk \in BOOLEAN :
          AddContent(payload, resp, writeOk)
    \/ \E q \in Queries, n \in 0 .. MaxN, f \in FilterSets, llm \in LLMResponses :
          SearchStart(q, n, f, llm)
    \/ \E resp \in EmbedResponses : SearchVariant(resp)
    \/ \E ok \in BOOLEAN : SearchFinish(ok)

Spec == Init /\ [][Next]_vars

----------------------------------------------------------------------------
(* QueryExpander: expand_query over the parsed output of the language model *)

\* one call of expand_query(query): the chain, if set, raises (ok = FALSE) or
\* answers the parse of the model's text.  The call is a function of its inputs and
\* of the limiter; one call is followed from the state after construction.
Expand(query, ok, text) ==
    /\ expOut = <<>>
    /\ LimiterCalls("llm", IF chain THEN 1 ELSE 0)
    /\ expIn' = [query |-> query, ok |-> ok, text |-> text]
    /\ expOut' \in expand_query(query, [ok |-> ok, queries |-> IF ok THEN parse(text) ELSE <<>>])
    /\ UNCHANGED <<limit, threadVars, hasKey, embedVars,
                   chain, store, search_stats, sr, response, addOut,
                   statsOut, getOut, getSeen, simOut, twoRuns, sugOut>>

NextExpand ==
    \E ok \in BOOLEAN, text \in OutputTexts : Expand(QueryChars, ok, text)

SpecExpand == Init /\ [][NextExpand]_vars

----------------------------------------------------------------------------
(* Rate limiter claims, one caller at a time (SpecRL) *)

\* C6: with limit > 0, a call that is among the first `limit` calls issued in its
\* 60-second window (from the initial state or a freshly reset window) returns
\* without sleeping.
C6_FirstLimitCallsNeverSleep ==
    \A c \in Classes :
        (limit[c] > 0 /\ nth[c] \in 1 .. limit[c]) => slept[c] = 0

\* the limit-th call of a window of a limiter with limit 2 has returned, not having slept
C6_Witness ==
    \E c \in Classes :
        /\ acq = c /\ limit[c] = 2 /\ nth[c] = 2
        /\ lim[c].count = 2 /\ slept[c] = 0

\* C7: with limit > 0, the (limit+1)-th call issued in a window that has not been
\* reset (elapsed time up to and including 60 s) sleeps for d with 0 < d <= 60, and
\* when it returns the window starts at the time of waking and the counter is 1.
C7_NextCallSleepsAndResets ==
    \A c \in Classes :
        (limit[c] > 0 /\ nth[c] = limit[c] + 1) =>
            /\ slept[c] > 0 /\ slept[c] <= Window
            /\ lim[c].last = ret[c]
            /\ lim[c].count = 1

\* C8: a limiter with limit <= 0 never blocks: no Acquire sleeps.
C8_NonPositiveLimitNeverBlocks ==
    \A c \in Classes : limit[c] <= 0 => slept[c] = 0

\* C26: with limit > 0 and one caller at a time, whenever a call has returned the
\* counter of the current window is between 1 and limit: no more than limit calls
\* are admitted between a window start and the next reset.
C26_CountWithinBudget ==
    \A c \in Classes :
        (limit[c] > 0 /\ nth[c] >= 1) =>
            (1 <= lim[c].count /\ lim[c].count <= limit[c])

\* C30: with limit > 0, a call sleeps at most once, for at most 60 s, and returns
\* with the counter one more than it found it (counting from 0 when the window had
\* run out), or 1 when it slept.
C30_AcquireReturnsAfterOneSleep ==
    \A c \in Classes :
        (limit[c] > 0 /\ nth[c] >= 1) =>
            /\ 0 <= slept[c] /\ slept[c] <= Window
            /\ ret[c] <= now
            /\ lim[c].count = IF slept[c] > 0 THEN 1 ELSE nth[c]

\* a call found the window exhausted, slept, and returned with the counter at 1
C30_Witness ==
    \E c \in Classes :
        /\ acq = c /\ limit[c] > 0
        /\ nth[c] = limit[c] + 1
        /\ slept[c] > 0 /\ slept[c] < Window
        /\ lim[c].count = 1 /\ lim[c].last = ret[c]

----------------------------------------------------------------------------
(* Rate limiter claim under concurrent callers (SpecConc) *)

\* the calls that slept in the window started at w and returned less than 60 s
\* around the return of call i
Herd(i) ==
    {j \in DOMAIN admits :
        /\ admits[j].slept
        /\ admits[j].sleptIn = admits[i].sleptIn
        /\ admits[j].at - admits[i].at < Window
        /\ admits[i].at - admits[j].at < Window}

\* C9: among the callers blocked in one exhausted window, at most `limit` are
\* admitted in the window that follows the sleep, and no counter increment is lost:
\* when no call is in progress the counter equals the increments made since its
\* last reset.
C9_NoThunderingHerd ==
    /\ \A i \in DOMAIN admits :
          admits[i].slept => Cardinality(Herd(i)) <= limit[EC]
    /\ (thr # <<>> /\ \A i \in Threads : thr[i].pc = "idle") =>
          lim[EC].count = sinceReset

----------------------------------------------------------------------------
(* Embedding claim (SpecEmbed) *)

\* C10: whatever the text, the credentials and the provider's response, the vector
\* generate_embedding returns has exactly the configured dimension; a shorter
\* provider vector is kept as a prefix and padded with zeros, a longer one is cut
\* to its first `dimension` components.
C10_EmbedHasConfiguredDimension ==
    embOut # <<>> =>
        /\ Len(embOut) = embedding_dimension
        /\ (hasKey /\ embIn.ok) =>
             \A i \in 1 .. embedding_dimension :
                embOut[i] = IF i <= Len(embIn.embedding) THEN embIn.embedding[i] ELSE 0

\* a provider vector longer than the dimension was cut, for the empty text
C10_Witness ==
    /\ hasKey /\ embIn.ok /\ embIn.text = ""
    /\ Len(embIn.embedding) = embedding_dimension + 1
    /\ embIn.embedding[embedding_dimension + 1] # 0
    /\ Len(embOut) = embedding_dimension

\* C11: generate_embedding never raises: without credentials, and on any failure
\* of the provider call, it returns the placeholder vector (every component the
\* fixed constant, the configured length); without credentials it neither
\* acquires the embedding limiter nor calls the provider.
C11_EmbedFallsBackToPlaceholder ==
    /\ embOut # <<>> =>
          /\ (~hasKey \/ ~embIn.ok) =>
                /\ Len(embOut) = embedding_dimension
                /\ \A i \in DOMAIN embOut : embOut[i] = PlaceholderComponent
          /\ ~hasKey => ~embIn.called
    /\ ~hasKey =>
          /\ lim["embedding"] = [last |-> 0, count |-> 0]
          /\ acq = "" /\ slept["embedding"] = 0

\* the provider was called for a non-empty text and failed, and the placeholder came back
C11_Witness ==
    /\ hasKey /\ embIn.called /\ ~embIn.ok /\ embIn.text # ""
    /\ lim["embedding"].count > 0
    /\ embOut = Placeholder

----------------------------------------------------------------------------
(* Search claims (Spec) *)

\* C1: a /search request with max_results = N >= 0 is answered with at most N
\* results, whatever the store, the filters and the expanded variants.
C1_AtMostMaxResults ==
    response.status = "ok" => Len(response.results) <= sr.max_results

\* the variants together gave more than N >= 1 results and N were returned
C1_Witness ==
    /\ response.status = "ok"
    /\ sr.max_results >= 1
    /\ Len(sr.all_results) > sr.max_results
    /\ Len(response.results) = sr.max_results

\* C2: no result of an answer carries a similarity_score (the rounded value stored
\* in the result) below the min_similarity of the request.
C2_NoScoreBelowThreshold ==
    response.status = "ok" =>
        \A j \in DOMAIN response.results :
            response.results[j].similarity_score >= sr.min_similarity

\* C3: the merge is first-seen-wins: every merged or returned result carries the
\* score of the first variant, in iteration order, that returned its id; a later
\* duplicate is dropped and never changes the kept score, also when it is higher.
C3_FirstSeenWins ==
    /\ \A j \in DOMAIN sr.all_results :
          /\ sr.all_results[j].similarity_score = sr.firstSeen[sr.all_results[j].id]
          /\ \A i \in DOMAIN sr.all_results : sr.all_results[i].id = sr.all_results[j].id => i = j
    /\ response.status = "ok" =>
          \A j \in DOMAIN response.results :
              response.results[j].similarity_score = sr.firstSeen[response.results[j].id]

\* an id came back from a later variant with a higher score, and the answer carries
\* the score of the first
C3_Witness ==
    /\ response.status = "ok"
    /\ \E j \in DOMAIN response.results :
          /\ response.results[j].id \in sr.dupHigher
          /\ response.results[j].similarity_score = sr.firstSeen[response.results[j].id]

\* C4: a /search request appends exactly one record to search_stats, whatever the
\* number of variants: the original query with the length of the returned list.
\* Stated for the requests in which no step raised, where it asks the least.
C4_OneStatRecordPerSearch ==
    (sr.pc = "idle" /\ response.status = "ok" /\ sr.errors = {}) =>
        /\ Len(search_stats) = sr.statsBefore + 1
        /\ search_stats[Len(search_stats)].query = sr.query
        /\ search_stats[Len(search_stats)].results_count = Len(response.results)

\* C5: when an unexpected error occurred at a step of the request, the answer is
\* an empty result list and no error; in particular a failure of one variant's
\* query does not yield the results of the other variants.  Stated for that
\* particular case: the only errors of the request were raised by store queries.
C5_FailureLooksEmpty ==
    (sr.pc = "idle" /\ sr.errors = {"query"}) =>
        /\ response.status = "ok"
        /\ response.results = <<>>

\* the place of an id in the merged results of the request
MergePos(id) == CHOOSE j \in DOMAIN sr.all_results : sr.all_results[j].id = id

\* C22: the list of the answer is ordered by similarity_score, non-increasing, and
\* the sort is stable: of two results with equal scores the one the merge appended
\* first comes first.
C22_SortedDescendingStable ==
    response.status = "ok" =>
        \A i, j \in DOMAIN response.results :
            i < j =>
                /\ response.results[i].similarity_score >= response.results[j].similarity_score
                /\ response.results[i].similarity_score = response.results[j].similarity_score
                      => MergePos(response.results[i].id) < MergePos(response.results[j].id)

\* a request of two variants was answered with two results of equal score
C22_Witness ==
    /\ response.status = "ok"
    /\ Len(response.results) = 2
    /\ response.results[1].similarity_score = response.results[2].similarity_score
    /\ Len(sr.expanded_queries) = 2

\* C24: the first variant searched and merged is the original query, the expanded
\* ones come after it; so an id the original query returns surfaces with the score
\* the original query gave it.
C24_OriginalQueryFirst ==
    sr.expanded_queries # <<>> => sr.expanded_queries[1] = sr.query

\* C23: the answer does not depend on the order in which expand_query lists the
\* variants: for a fixed store, fixed filters and a fixed set of variants, two
\* requests that differ only in that order return the same list (ids, scores, order).
C23_StableUnderExpansionOrder ==
    twoRuns.status = "done" => twoRuns.first = twoRuns.second

\* C28: the list of the answer never holds two results with the same id, whatever
\* the number of variants and the overlap of their results.
C28_NoDuplicateIds ==
    response.status = "ok" =>
        \A i, j \in DOMAIN response.results :
            response.results[i].id = response.results[j].id => i = j

\* two variants returned the same item, and the answer holds two items
C28_Witness ==
    /\ response.status = "ok"
    /\ Len(sr.expanded_queries) = 2
    /\ Len(search_stats) = sr.statsBefore + 2
    /\ search_stats[Len(search_stats)].results_count
         + search_stats[Len(search_stats) - 1].results_count > Len(sr.all_results)
    /\ Len(response.results) = 2

\* C17: with a non-empty category_filter c, every result merged from any variant,
\* and every result of the answer, is a stored item whose category is exactly c.
C17_CategoryFilterOnEveryVariant ==
    sr.category_filter # "" =>
        /\ \A j \in DOMAIN sr.all_results :
              \E i \in DOMAIN store :
                  /\ store[i].id = sr.all_results[j].id
                  /\ store[i].category = sr.category_filter
        /\ response.status = "ok" =>
              \A j \in DOMAIN response.results :
                  \E i \in DOMAIN store :
                      /\ store[i].id = response.results[j].id
                      /\ store[i].category = sr.category_filter

\* two variants were searched under the filter "Health" in a store that also holds
\* an item of another category, and the answer is not empty
C17_Witness ==
    /\ response.status = "ok"
    /\ sr.category_filter = "Health"
    /\ Len(sr.expanded_queries) = 2
    /\ \E i \in DOMAIN store : store[i].category # "Health"
    /\ response.results # <<>>

\* C18: without credentials (every embedding is the placeholder vector), whatever
\* the store held before: after id = add_content(item), a /search with
\* max_results = ScenarioMaxResults and no filters returns a list that contains id
\* with similarity_score 1.0.  Stated for the requests in which no step raised.
C18_DegradedSearchFindsAddedItem ==
    ( /\ ~hasKey
      /\ addOut.status = "ok"
      /\ sr.pc = "idle" /\ response.status = "ok" /\ sr.errors = {}
      /\ sr.max_results = ScenarioMaxResults
      /\ sr.category_filter = "" /\ sr.difficulty_filter = "" /\ sr.min_similarity = 0 )
    => \E j \in DOMAIN response.results :
           /\ response.results[j].id = addOut.id
           /\ response.results[j].similarity_score = Scale

\* C21: add_content surfaces a failure instead of fabricating an id: when the
\* store write fails the call raises, answers no id, and the store and
\* search_stats are as before; when only the embedding provider fails the call
\* succeeds, the item is stored under the id returned, with the placeholder vector.
C21_AddSurfacesFailure ==
    [][ addOut'.n = addOut.n + 1 =>
          /\ addOut'.writeFailed =>
                /\ addOut'.status = "error"
                /\ addOut'.id = 0
                /\ store' = store
                /\ search_stats' = search_stats
          /\ (addOut'.embedFailed /\ ~addOut'.writeFailed) =>
                /\ addOut'.status = "ok"
                /\ \A i \in DOMAIN store : store[i].id # addOut'.id
                /\ Len(store') = Len(store) + 1
                /\ SubSeq(store', 1, Len(store)) = store
                /\ store'[Len(store')].id = addOut'.id
                /\ store'[Len(store')].embedding = Placeholder ]_vars

\* a write failed after an item was stored whose embedding the provider failed
\* to compute
C21_Witness ==
    /\ addOut.status = "error" /\ addOut.writeFailed
    /\ hasKey
    /\ \E i \in DOMAIN store : store[i].embedding = Placeholder

----------------------------------------------------------------------------
(* The /search pipeline as a function of the order of the variants: what two  *)
(* requests return that expand to the same variants in different orders and   *)
(* get the same answers from the store.                                       *)

\* the variants of the request, as a set
Variants == {"q0", "q1"}

RECURSIVE MergeVariants(_, _, _)
\* main.py lines 63-79: all_results and seen_ids after the first k variants of the
\* list, results[v] being what db.search_content returns for v
MergeVariants(expanded_queries, results, k) ==
    IF k = 0 THEN [all_results |-> <<>>, seen_ids |-> {}]
    ELSE Merge(MergeVariants(expanded_queries, results, k - 1), results[expanded_queries[k]])

\* main.py lines 63-90: the results of the response
SearchResults(expanded_queries, results, max_results) ==
    FinalResults(MergeVariants(expanded_queries, results, Len(expanded_queries)).all_results,
                 max_results)

\* two requests for the same query, limit and filters over the same store, the
\* store answering each variant the same way in both; list(set(...)) yields the
\* variants in one order for the first and in the other order for the second
SearchTwice(n, f, resp) ==
    /\ sr.pc = "idle"
    /\ \E ans \in [Variants -> UNION {QueryAnswers(generate_embedding(hasKey, resp[v]), n,
                                                   f.category_filter, f.difficulty_filter) :
                                      v \in Variants}] :
          LET results == [v \in Variants |-> ContentResults(ans[v], f.min_similarity)] IN
          /\ \A v \in Variants :
                ans[v] \in QueryAnswers(generate_embedding(hasKey, resp[v]), n,
                                        f.category_filter, f.difficulty_filter)
          /\ twoRuns' = [status |-> "done", max_results |-> n, results |-> results,
                         first |-> SearchResults(<<"q0", "q1">>, results, n),
                         second |-> SearchResults(<<"q1", "q0">>, results, n)]
    /\ UNCHANGED <<limiterVars, threadVars, hasKey, embedVars, chain, store, search_stats,
                   sr, response, addOut, expIn, expOut, statsOut, getOut, getSeen, simOut,
                   sugOut>>

NextOrder ==
    \/ \E payload \in Payloads, resp \in EmbedResponses, writeOk \in BOOLEAN :
          AddContent(payload, resp, writeOk)
    \/ \E n \in 0 .. MaxN, f \in FilterSets, resp \in [Variants -> EmbedResponses] :
          SearchTwice(n, f, resp)

SpecOrder == Init /\ [][NextOrder]_vars

----------------------------------------------------------------------------
(* ContentRepository: get_content_by_id and get_similar_content, over the     *)
(* items add_content stored                                                   *)

\* the ids asked for: the ids add_content can have given, and one never given
LookupIds == 1 .. MaxItems + 1

\* lines 227-238: the item rebuilt from the record of the collection
ItemOf(rec) ==
    [id |-> rec.id,
     title |-> rec.title,
     category |-> rec.category,
     tags |-> SplitTags(rec.tags),
     difficulty |-> rec.difficulty,
     long |-> rec.long]

\* what happens in the store when the id is fetched (line 225)
FetchCause(content_id, fetchOk) ==
    IF ~fetchOk THEN "error"
    ELSE IF \E i \in DOMAIN store : store[i].id = content_id THEN "found"
    ELSE "absent"

\* get_content_by_id (lines 222-242): <<item>>, or <<>> for None, which is returned
\* both when the collection holds no such id (line 239) and when the fetch raises
\* (lines 240-242)
get_content_by_id(content_id, fetchOk) ==
    IF FetchCause(content_id, fetchOk) = "found"
    THEN <<ItemOf(store[CHOOSE i \in DOMAIN store : store[i].id = content_id])>>
    ELSE <<>>

\* line 332 without the filter: the original stays among the results
SimilarResultsKeepOriginal(similar_results, content_id, max_results) ==
    Take(similar_results, max_results)

\* line 332: [r for r in similar_results if r['id'] != content_id][:max_results]
SimilarResults(similar_results, content_id, max_results) ==
    LET Other(r) == r.id # content_id
    IN  Take(SelectSeq(similar_results, Other), max_results)

repoFrame ==
    UNCHANGED <<limit, threadVars, hasKey, embedVars, chain, sr, response, addOut,
                expIn, expOut, statsOut, twoRuns, sugOut>>

\* one call of get_content_by_id(content_id)
GetByID(content_id, fetchOk) ==
    LET cause == FetchCause(content_id, fetchOk)
        value == get_content_by_id(content_id, fetchOk)
    IN  /\ getOut' = [content_id |-> content_id, cause |-> cause, value |-> value]
        /\ getSeen' = IF cause = "found" THEN getSeen
                      ELSE [getSeen EXCEPT ![cause] = [seen |-> TRUE, value |-> value]]
        /\ simOut' = NoSimilar(simOut.n)
        /\ UNCHANGED <<now, lim, nth, slept, acq, ret, store, search_stats>>
        /\ repoFrame

\* one call of get_similar_content(content_id, max_results) (lines 319-338): the
\* fetch of the original, the search for its text with max_results + 1 and no
\* filter (database.py lines 162-220), and the list without the original.  One such
\* call is followed per behaviour, from every store the add_content calls can build.
FindSimilar(content_id, max_results, fetchOk, resp) ==
    LET original_content == get_content_by_id(content_id, fetchOk)
        Answer(results) ==
            simOut' = [status |-> FetchCause(content_id, fetchOk),
                       content_id |-> content_id, max_results |-> max_results,
                       results |-> results, n |-> simOut.n + 1]
    IN  /\ simOut.n = 0
        /\ IF original_content = <<>>
           THEN /\ Answer(<<>>)
                /\ UNCHANGED <<now, lim, nth, slept, acq, ret, search_stats>>
           ELSE /\ LimiterCalls("embedding", IF hasKey THEN 1 ELSE 0)
                /\ \/ \E ans \in QueryAnswers(generate_embedding(hasKey, resp),
                                                max_results + 1, "", "") :
                         LET similar_results == ContentResults(ans, 0) IN
                         /\ \E elapsed \in SearchTimes :
                               search_stats' = Append(search_stats,
                                   StatRecord(original_content[1].title, similar_results,
                                              elapsed))
                         /\ Answer(SimilarResults(similar_results, content_id, max_results))
                   \* lines 218-220: the search raised and returned []
                   \/ /\ search_stats' = search_stats
                      /\ Answer(SimilarResults(<<>>, content_id, max_results))
        /\ getOut' = NoLookup
        /\ UNCHANGED <<store, getSeen>>
        /\ repoFrame

NextRepo ==
    \/ \E payload \in RepoPayloads, resp \in EmbedResponses, writeOk \in BOOLEAN :
          AddContent(payload, resp, writeOk)
    \/ \E content_id \in LookupIds, fetchOk \in BOOLEAN : GetByID(content_id, fetchOk)
    \/ \E content_id \in LookupIds, n \in 0 .. MaxN, fetchOk \in BOOLEAN,
          resp \in EmbedResponses :
          FindSimilar(content_id, n, fetchOk, resp)

SpecRepo == Init /\ [][NextRepo]_vars

----------------------------------------------------------------------------
(* StatsTracker: the search_stats log and ContentDatabase.get_stats.  A       *)
(* search_time is an integer in units of 10^-5 s, as the scores are.          *)

\* records of the log in one behaviour
MaxLog == 5
\* self.search_stats[-100:] (line 289), scaled down
RecentWindow == 3
\* [:10] of the sorted counts (line 297), scaled down
TopQueries == 2

\* the queries recorded, more of them than TopQueries
StatQueries == {"qa", "qb", "qc"}
\* the elapsed times recorded: 0.3 s, and 0.12346 s, which has a fifth decimal
StatTimes == {30000, 12346}

RECURSIVE SumTimes(_, _)
\* sum(s['search_time'] for s in self.search_stats), over the first n records
SumTimes(log, n) == IF n = 0 THEN 0 ELSE SumTimes(log, n - 1) + log[n].search_time

\* round(total / n, 4): the multiple of 10 units nearest to total / n, ties to even
RoundDiv4(total, n) ==
    LET q == total \div (10 * n)
        r == total - q * 10 * n
    IN  IF 2 * r < 10 * n THEN 10 * q
        ELSE IF 2 * r > 10 * n THEN 10 * (q + 1)
        ELSE IF q % 2 = 0 THEN 10 * q ELSE 10 * (q + 1)

\* lines 286 and 304 with the sum taken over the recent records only
AverageSearchTimeRecent(log) ==
    RoundDiv4(SumTimes(SubSeq(log, IF Len(log) > RecentWindow THEN Len(log) - RecentWindow + 1 ELSE 1,
                              Len(log)),
                       Min(Len(log), RecentWindow)),
              IF Len(log) > 1 THEN Len(log) ELSE 1)

\* lines 285-286 and 304: round(sum / max(total_searches, 1), 4)
AverageSearchTime(log) ==
    RoundDiv4(SumTimes(log, Len(log)), IF Len(log) > 1 THEN Len(log) ELSE 1)

\* line 289 without the slice: every record of the log is counted
RecentSearchesAll(log) == log

\* line 289: self.search_stats[-100:] if self.search_stats else []
RecentSearches(log) ==
    IF log # <<>>
    THEN SubSeq(log, IF Len(log) > RecentWindow THEN Len(log) - RecentWindow + 1 ELSE 1, Len(log))
    ELSE <<>>

RECURSIVE QueryCounts(_, _)
\* lines 290-293: query_counts after the first n recent records, a dict, so in the
\* order in which the queries were first met
QueryCounts(recent, n) ==
    IF n = 0 THEN <<>>
    ELSE LET acc == QueryCounts(recent, n - 1)
             query == recent[n].query
         IN  IF \E j \in DOMAIN acc : acc[j].query = query
             THEN [j \in DOMAIN acc |->
                     IF acc[j].query = query
                     THEN [query |-> query, count |-> acc[j].count + 1] ELSE acc[j]]
             ELSE Append(acc, [query |-> query, count |-> 1])

\* r placed before the entries of its own count
InsertByCountTiesLast(sorted, r) ==
    LET pos == Cardinality({j \in DOMAIN sorted : sorted[j].count > r.count})
    IN  SubSeq(sorted, 1, pos) \o <<r>> \o SubSeq(sorted, pos + 1, Len(sorted))

\* r placed behind every entry whose count is at least its own
InsertByCount(sorted, r) ==
    LET pos == Cardinality({j \in DOMAIN sorted : sorted[j].count >= r.count})
    IN  SubSeq(sorted, 1, pos) \o <<r>> \o SubSeq(sorted, pos + 1, Len(sorted))

RECURSIVE SortCountsFirst(_, _)
SortCountsFirst(seq, n) ==
    IF n = 0 THEN <<>> ELSE InsertByCount(SortCountsFirst(seq, n - 1), seq[n])

\* lines 295-298: sorted(query_counts.items(), key=count, reverse=True)[:10], stable
PopularQueries(log) ==
    LET recent == RecentSearches(log)
        counts == QueryCounts(recent, Len(recent))
    IN  Take(SortCountsFirst(counts, Len(counts)), TopQueries)

\* lines 279-283: the stored items per category
CategoryCounts ==
    [c \in {store[i].category : i \in DOMAIN store} |->
        Cardinality({i \in DOMAIN store : store[i].category = c})]

\* get_stats (lines 273-317) once collection.count() has answered total_content:
\* the statistics, or the zeroed ones when reading the collection raises
get_statsFrom(total_content, storeOk) ==
    IF storeOk
    THEN [status |-> "ok",
          total_content |-> total_content,
          categories |-> CategoryCounts,
          total_searches |-> Len(search_stats),
          average_search_time |-> AverageSearchTime(search_stats),
          popular_queries |-> PopularQueries(search_stats)]
    ELSE [status |-> "fallback",
          total_content |-> 0,
          categories |-> <<>>,
          total_searches |-> 0,
          average_search_time |-> 0,
          popular_queries |-> <<>>]

\* get_stats when nothing is written between its two reads of the collection
get_stats(storeOk) == get_statsFrom(Len(store), storeOk)

statsFrame ==
    UNCHANGED <<limiterVars, threadVars, hasKey, embedVars,
                chain, store, sr, response, addOut, expIn, expOut, getOut, getSeen, simOut,
                twoRuns, sugOut>>

\* database.py lines 209-214: one record is appended to the log
Record(query, elapsed) ==
    /\ Len(search_stats) < MaxLog
    /\ search_stats' = Append(search_stats, [query |-> query, search_time |-> elapsed])
    /\ statsOut' = [status |-> "none"]
    /\ statsFrame

\* one call of get_stats
Stats(storeOk) ==
    /\ statsOut' = get_stats(storeOk)
    /\ UNCHANGED search_stats
    /\ statsFrame

NextStats ==
    \/ \E query \in StatQueries, elapsed \in StatTimes : Record(query, elapsed)
    \/ \E storeOk \in BOOLEAN : Stats(storeOk)

SpecStats == Init /\ [][NextStats]_vars

----------------------------------------------------------------------------
(* The /query-suggestions handler (main.py lines 172-190) and                 *)
(* LangChainProcessor.generate_search_suggestions.                            *)

\* main.py line 177: db.search_content(query, max_results=5)
SuggestMaxResults == 5
\* langchain line 232: the [:5] of common_tags
CommonTags == 5
\* langchain line 245: suggestions[:5]
MaxSuggestions == 5

\* the queries asked: "Go", which holds the tag "go" once lowered, and "ab"
SuggestQueries == {"Go", "ab"}
\* the characters of a query, as the characters of a tag
Chars(query) == IF query = "Go" THEN <<"G", "o">> ELSE <<"a", "b">>

\* str.lower() on the characters of the model
LowerChar(ch) == IF ch = "G" THEN "g" ELSE ch
Lower(str) == [i \in DOMAIN str |-> LowerChar(str[i])]
\* category.lower(), the lowered name as one token
CategoryLower(c) ==
    IF c = "Health" THEN <<"health">>
    ELSE IF c = "Technology" THEN <<"technology">>
    ELSE <<c>>

\* sub in str
Contains(str, sub) ==
    \E k \in 0 .. Len(str) - Len(sub) : SubSeq(str, k + 1, k + Len(sub)) = sub

\* database.py line 198: the tags of a result, split from the stored string
TagsOf(result) ==
    SplitTags((CHOOSE rec \in Range(store) : rec.id = result.id).tags)

RECURSIVE AllTags(_, _)
\* langchain lines 222-224: all_tags after the first n results
AllTags(results, n) ==
    IF n = 0 THEN <<>> ELSE AllTags(results, n - 1) \o TagsOf(results[n])

\* langchain lines 216-249: the lists generate_search_suggestions may return; the
\* categories are listed in the order of a set
generate_search_suggestions(query, results) ==
    IF results = <<>> THEN {<<>>}
    ELSE LET categories == {results[j].category : j \in DOMAIN results}
             all_tags == AllTags(results, Len(results))
             tag_counts == QueryCounts([j \in DOMAIN all_tags |-> [query |-> all_tags[j]]],
                                       Len(all_tags))
             common_tags == Take(SortCountsFirst(tag_counts, Len(tag_counts)), CommonTags)
             NotInQuery(t) == ~Contains(Lower(Chars(query)), Lower(t.query))
             kept == SelectSeq(common_tags, NotInQuery)
             byTag == [j \in DOMAIN kept |->
                         [query |-> query, kind |-> "tag", word |-> Lower(kept[j].query)]]
         IN  {Take([j \in DOMAIN order |->
                      [query |-> query, kind |-> "in", word |-> CategoryLower(order[j])]]
                   \o byTag, MaxSuggestions) : order \in Perms(categories)}

\* one /query-suggestions request: the search for the query with no filter
\* (database.py lines 162-220), then the suggestions; analyze_search_intent is a
\* function of the query alone.  One such request is followed per behaviour.
Suggest(query, resp) ==
    LET Answer(results) ==
            \E suggestions \in generate_search_suggestions(query, results) :
               sugOut' = [status |-> "ok", query |-> query, suggestions |-> suggestions,
                          n |-> sugOut.n + 1]
    IN  /\ sr.pc = "idle"
        /\ sugOut.n = 0
        /\ LimiterCalls("embedding", IF hasKey THEN 1 ELSE 0)
        /\ \/ \E ans \in QueryAnswers(generate_embedding(hasKey, resp),
                                        SuggestMaxResults, "", ""),
                  elapsed \in SearchTimes :
                 LET results == ContentResults(ans, 0) IN
                 /\ search_stats' = Append(search_stats, StatRecord(query, results, elapsed))
                 /\ Answer(results)
           \* lines 218-220: the search raised and returned []
           \/ /\ search_stats' = search_stats
              /\ Answer(<<>>)
        /\ UNCHANGED <<limit, threadVars, hasKey, embedVars, chain, store, sr, response,
                       addOut, expIn, expOut, statsOut, getOut, getSeen, simOut, twoRuns>>

\* no request that reads the collection was served since the last add_content
\* that followed a lookup, and no /stats request
NoReadYet ==
    /\ sr.n = 0 /\ simOut.n = 0 /\ sugOut.n = 0
    /\ statsOut.status = "none"
    /\ getOut = NoLookup /\ ~getSeen.absent.seen /\ ~getSeen.error.seen

\* the requests of the service one after the other, each run to its end before
\* the next (a /search is followed through its steps).  A behaviour holds one
\* request that reads the collection and then one /stats request, with the
\* add_content calls around them.
NextFrame ==
    \/ \E payload \in Payloads, resp \in EmbedResponses, writeOk \in BOOLEAN :
          AddContent(payload, resp, writeOk)
    \/ \E q \in Queries, n \in 0 .. MaxN, f \in FilterSets, llm \in LLMResponses :
          NoReadYet /\ SearchStart(q, n, f, llm)
    \/ \E resp \in EmbedResponses : SearchVariant(resp)
    \/ \E ok \in BOOLEAN : SearchFinish(ok)
    \/ \E content_id \in LookupIds, fetchOk \in BOOLEAN :
          NoReadYet /\ GetByID(content_id, fetchOk)
    \/ \E content_id \in LookupIds, n \in 0 .. MaxN, fetchOk \in BOOLEAN,
          resp \in EmbedResponses :
          NoReadYet /\ FindSimilar(content_id, n, fetchOk, resp)
    \/ \E storeOk \in BOOLEAN :
          sr.pc = "idle" /\ statsOut.status = "none" /\ Stats(storeOk)
    \/ \E query \in SuggestQueries, resp \in EmbedResponses :
          NoReadYet /\ Suggest(query, resp)

SpecFrame == Init /\ [][NextFrame]_vars

----------------------------------------------------------------------------
(* get_stats while other callers write to the collection.  The collection is  *)
(* shared by every caller of the persistent store (database.py line 40);      *)
(* collection.count() and collection.get() are two calls, and a write of      *)
(* another caller may be served between them.                                 *)

\* line 276: total_content = self.collection.count(), or the exception handler
\* (lines 309-317)
StatsCount(storeOk) ==
    /\ statsOut.status # "counting"
    /\ statsOut' = IF storeOk
                   THEN [status |-> "counting", total_content |-> Len(store)]
                   ELSE get_statsFrom(0, FALSE)
    /\ UNCHANGED search_stats
    /\ statsFrame

\* lines 279-307: collection.get(), the counts and the answer
StatsScan(storeOk) ==
    /\ statsOut.status = "counting"
    /\ statsOut' = get_statsFrom(statsOut.total_content, storeOk)
    /\ UNCHANGED search_stats
    /\ statsFrame

NextStatsConc ==
    \/ \E payload \in Payloads, resp \in EmbedResponses, writeOk \in BOOLEAN :
          AddContent(payload, resp, writeOk)
    \/ \E storeOk \in BOOLEAN : StatsCount(storeOk)
    \/ \E storeOk \in BOOLEAN : StatsScan(storeOk)

SpecStatsConc == Init /\ [][NextStatsConc]_vars

----------------------------------------------------------------------------
(* Query expansion claims (SpecExpand) *)

\* C15: whatever the query and the output of the language model, the list
\* expand_query returns contains the original query, contains no string twice, and
\* has at most one element more than the cap of the parser.
C15_ExpansionIsSetWithOriginal ==
    expOut # <<>> =>
        /\ \E i \in DOMAIN expOut : expOut[i] = expIn.query
        /\ \A i, j \in DOMAIN expOut : expOut[i] = expOut[j] => i = j
        /\ Len(expOut) <= MaxCandidates + 1

\* the output named the query itself and one more candidate, and the list holds
\* the two of them
C15_Witness ==
    /\ chain /\ expIn.ok
    /\ \E j \in DOMAIN expIn.text : CleanLine(Strip(expIn.text[j], Whitespace)) = expIn.query
    /\ Len(expOut) = 2

\* C16: expansion degrades to the original query alone: without a chain, when the
\* chain raises, and when its output is empty or holds no candidate (only blank,
\* bullet-only or too short lines), expand_query returns exactly [query]; without
\* a chain it does not touch the generative limiter.
C16_ExpansionDegradesToOriginal ==
    /\ expOut # <<>> =>
          ((~chain \/ ~expIn.ok \/ \A j \in DOMAIN expIn.text : expIn.text[j] \in JunkLines)
              => expOut = <<expIn.query>>)
    /\ ~chain => (lim["llm"] = [last |-> 0, count |-> 0] /\ acq = "")

\* the chain answered lines none of which holds a candidate, and [query] came back
C16_Witness ==
    /\ chain /\ expIn.ok
    /\ Len(expIn.text) = MaxLines
    /\ \E j \in DOMAIN expIn.text : Len(expIn.text[j]) > MinQueryLen
    /\ \A j \in DOMAIN expIn.text : expIn.text[j] \in JunkLines
    /\ expOut = <<expIn.query>>

----------------------------------------------------------------------------
(* Statistics claims (SpecStats) *)

\* the records of the log that are among the most recent RecentWindow
RecentIndexes == {i \in DOMAIN search_stats : i > Len(search_stats) - RecentWindow}

\* C13: after any sequence of records, get_stats returns at most TopQueries
\* popular_queries, and the count of each is the number of occurrences of that
\* exact query among the most recent min(RecentWindow, log length) records only; a
\* query met only in older records is not listed.
C13_PopularQueriesFromRecentOnly ==
    statsOut.status # "none" =>
        /\ Len(statsOut.popular_queries) <= TopQueries
        /\ \A j \in DOMAIN statsOut.popular_queries :
              /\ statsOut.popular_queries[j].count >= 1
              /\ statsOut.popular_queries[j].count =
                    Cardinality({i \in RecentIndexes :
                                   search_stats[i].query = statsOut.popular_queries[j].query})

\* the log is longer than the window, its oldest query is not in the window, and
\* the list is full
C13_Witness ==
    /\ statsOut.status = "ok"
    /\ Len(search_stats) > RecentWindow
    /\ \A i \in RecentIndexes : search_stats[i].query # search_stats[1].query
    /\ Len(statsOut.popular_queries) = TopQueries

\* C14: get_stats does not fail on an empty log: with total_searches = 0 it
\* returns average_search_time 0 and no popular query; and in general
\* average_search_time is the sum of the search times of the log divided by
\* max(total_searches, 1).  Stated for the calls that could read the collection.
C14_AverageIsSumOverCount ==
    statsOut.status = "ok" =>
        /\ statsOut.total_searches = 0 =>
              (statsOut.average_search_time = 0 /\ statsOut.popular_queries = <<>>)
        /\ statsOut.average_search_time *
              (IF statsOut.total_searches > 1 THEN statsOut.total_searches ELSE 1)
              = SumTimes(search_stats, Len(search_stats))

\* C14 as the code has it: get_stats always answers; when the collection cannot be
\* read the answer is the zeroed one; else total_searches is the length of the log
\* and average_search_time is sum / max(total_searches, 1) rounded to 4 decimals
\* (a multiple of 10 units at most 5 units from the quotient), 0 for an empty log.
C14_AverageIsRoundedSumOverCount ==
    /\ statsOut.status = "fallback" =>
          /\ statsOut.total_searches = 0
          /\ statsOut.average_search_time = 0
          /\ statsOut.popular_queries = <<>>
    /\ statsOut.status = "ok" =>
          LET n == IF statsOut.total_searches > 1 THEN statsOut.total_searches ELSE 1
              d == statsOut.average_search_time * n - SumTimes(search_stats, Len(search_stats))
          IN  /\ statsOut.total_searches = Len(search_stats)
              /\ statsOut.total_searches = 0 =>
                    (statsOut.average_search_time = 0 /\ statsOut.popular_queries = <<>>)
              /\ statsOut.average_search_time % 10 = 0
              /\ d <= 5 * n /\ 0 - d <= 5 * n

\* the average of a log longer than the window has a fifth decimal and was rounded
C14_Witness ==
    /\ statsOut.status = "ok"
    /\ Len(search_stats) > RecentWindow
    /\ statsOut.average_search_time * statsOut.total_searches
          # SumTimes(search_stats, Len(search_stats))

\* the occurrences of query q among the recent records, and the first of them
RecentCount(q) == Cardinality({i \in RecentIndexes : search_stats[i].query = q})
FirstMet(q) == CHOOSE i \in RecentIndexes :
                  /\ search_stats[i].query = q
                  /\ \A k \in RecentIndexes : search_stats[k].query = q => i <= k
\* a is listed before b: more occurrences, or as many and met first
ListedBefore(a, b) ==
    \/ RecentCount(a) > RecentCount(b)
    \/ RecentCount(a) = RecentCount(b) /\ FirstMet(a) < FirstMet(b)

\* C25: popular_queries is ordered by count, non-increasing; queries of equal
\* count are in the order in which the scan of the recent records, oldest first,
\* met them; and the cut to TopQueries is taken after the ordering: a query of the
\* recent records that is not listed comes, in that order, after every listed one.
C25_PopularQueriesOrdered ==
    statsOut.status = "ok" =>
        LET p == statsOut.popular_queries
            recentQueries == {search_stats[i].query : i \in RecentIndexes}
            listed == {p[j].query : j \in DOMAIN p}
        IN  /\ \A i, j \in DOMAIN p : i < j =>
                   /\ p[i].count >= p[j].count
                   /\ ListedBefore(p[i].query, p[j].query)
            /\ listed \subseteq recentQueries
            /\ Len(p) = Min(TopQueries, Cardinality(recentQueries))
            /\ \A a \in listed, b \in recentQueries \ listed : ListedBefore(a, b)

\* three queries were met once each in the recent records, and the two met first
\* are listed
C25_Witness ==
    /\ statsOut.status = "ok"
    /\ Cardinality({search_stats[i].query : i \in RecentIndexes}) = 3
    /\ Len(statsOut.popular_queries) = TopQueries
    /\ statsOut.popular_queries[1].count = statsOut.popular_queries[2].count

----------------------------------------------------------------------------
(* Frame claim (SpecFrame) *)

\* C27: a step of a /search, of get_similar_content, of get_content_by_id, of
\* get_stats or of /query-suggestions (any step that is not an add_content call)
\* leaves the store as it is; an add_content call that returns an id inserts
\* exactly one record, under that id, which no record had, and leaves the records
\* there unchanged; the number of records never decreases; and a step of
\* add_content, of get_content_by_id or of get_stats leaves search_stats as it is.
C27_FrameOfReadsAndWrites ==
    [][ /\ addOut'.n = addOut.n => store' = store
        /\ (addOut'.n # addOut.n /\ addOut'.status = "ok") =>
              /\ Len(store') = Len(store) + 1
              /\ SubSeq(store', 1, Len(store)) = store
              /\ store'[Len(store')].id = addOut'.id
              /\ \A i \in DOMAIN store : store[i].id # addOut'.id
        /\ Len(store') >= Len(store)
        /\ ( \/ addOut'.n # addOut.n
             \/ (getOut' # getOut /\ getOut'.cause # "none")
             \/ statsOut' # statsOut )
           => search_stats' = search_stats ]_vars

\* two items were added, a /query-suggestions request searched them and was
\* recorded, and get_stats answered
C27_Witness ==
    /\ Len(store) = 2 /\ addOut.status = "ok"
    /\ sugOut.status = "ok" /\ sugOut.suggestions # <<>>
    /\ search_stats # <<>>
    /\ statsOut.status = "ok" /\ statsOut.total_searches = 1

----------------------------------------------------------------------------
(* Statistics claim under concurrent writers (SpecStatsConc) *)

RECURSIVE SumOver(_, _)
\* the sum of the values of f over the keys in S
SumOver(f, S) ==
    IF S = {} THEN 0
    ELSE LET k == CHOOSE x \in S : TRUE IN f[k] + SumOver(f, S \ {k})

\* C29: every answer of get_stats is consistent: the values of categories sum
\* to total_content, also when add_content calls are served while get_stats runs.
C29_CategoryCountsSumToTotal ==
    statsOut.status \in {"ok", "fallback"} =>
        SumOver(statsOut.categories, DOMAIN statsOut.categories) = statsOut.total_content

----------------------------------------------------------------------------
(* Repository claims (SpecRepo) *)

\* C12: for every stored id and every N >= 0, the list get_similar_content(id, N)
\* returns has no entry whose id is id and has at most N entries; for an id that is
\* not stored the list is empty.
C12_SimilarExcludesOriginal ==
    simOut.status # "none" =>
        /\ \A j \in DOMAIN simOut.results : simOut.results[j].id # simOut.content_id
        /\ Len(simOut.results) <= simOut.max_results
        /\ simOut.status = "absent" => simOut.results = <<>>

\* the search for a stored item gave the item itself and another one, and the
\* other one was returned
C12_Witness ==
    /\ simOut.status = "found"
    /\ simOut.max_results = 1
    /\ Len(store) >= 2
    /\ Len(simOut.results) = 1
    /\ search_stats # <<>>
    /\ search_stats[Len(search_stats)].results_count = 2

\* C19: add_content then get_content_by_id is a round trip: for every accepted
\* body (any tag list, the empty one and tags that hold a comma included), the item
\* read back under the id add_content returned has that id and the title, body,
\* category, tags (same sequence) and difficulty that were supplied.
C19_AddGetRoundTrip ==
    ( /\ addOut.status = "ok"
      /\ getOut.cause = "found"
      /\ getOut.content_id = addOut.id )
    => /\ getOut.value[1].id = addOut.id
       /\ getOut.value[1].title = addOut.fields.title
       /\ getOut.value[1].category = addOut.fields.category
       /\ getOut.value[1].difficulty = addOut.fields.difficulty
       /\ getOut.value[1].long = addOut.fields.long
       /\ getOut.value[1].tags = addOut.fields.tags

\* C20: get_content_by_id on an id that is not stored gives an outcome distinct
\* from that of a fetch that failed: the two never return the same value.
C20_NotFoundDistinctFromFailure ==
    (getSeen.absent.seen /\ getSeen.error.seen) =>
        getSeen.absent.value # getSeen.error.value

====
